---- MODULE Spec2Model ----
(***************************************************************************)
(* LFU cache with LRU tie-breaking (internal/lfu) on top of the sentinel   *)
(* doubly-linked list of internal/linkedlist.  The list is modelled at     *)
(* pointer level: every Element has a next and a prev pointer, the root    *)
(* sentinel is element 0 and a nil pointer is Nil.                         *)
(***************************************************************************)
EXTENDS Integers, Sequences, FiniteSets, TLC

\* ------------------------------------------------------------------ bounds
NumKeys == 3
MaxTotalFreq == 8
MaxCap == 2

\* ------------------------------------------------------- program constants
DefaultCapacity == 5

Keys == 1..NumKeys
Vals == {"v1", "v2"}
Freqs == 1..MaxTotalFreq

\* Addresses of list elements.  Root is the sentinel List.root, Nil the nil
\* pointer.  One spare address beyond one per key.
Root == 0
Nil == -1
Elems == 1..(NumKeys + 1)
Ptrs == {Root} \cup Elems

\* Zero value of V (CacheImpl.defaultValue is never assigned).
defaultValue == "zero"
\* A nil *node: Element.Value of the sentinel and of unallocated addresses.
NilNode == [key |-> 0, value |-> defaultValue, freq |-> 0]

ErrKeyNotFound == "key not found"
NoErr == "nil"

VARIABLES
    next,                      \* Element.next, per address
    prev,                      \* Element.prev, per address
    len,                       \* List.len
    Value,                     \* Element.Value (the *node), per address
    keyToElement,              \* CacheImpl.keyToElement; Nil = key not in map
    frequencyToRecentElement,  \* CacheImpl.frequencyToRecentElement; Nil = no entry
    capacity,                  \* CacheImpl.capacity
    phase,                     \* "start" before New, "ready" after, "failed" if New panicked
    newArgs,                   \* history: the argument list New was called with
    lastOp,                    \* the last public call and what it returned
    recency,                   \* history: live keys, most recently touched first
    lastPut                    \* history: per live key, the value of its latest Put

vars == <<next, prev, len, Value, keyToElement, frequencyToRecentElement,
          capacity, phase, newArgs, lastOp, recency, lastPut>>

\* The program state as one record, threaded through the operators below.
Cache ==
    [next |-> next, prev |-> prev, len |-> len, Value |-> Value,
     keyToElement |-> keyToElement,
     frequencyToRecentElement |-> frequencyToRecentElement,
     capacity |-> capacity, panicked |-> FALSE, misuse |-> FALSE]

\* A nil pointer dereference: the call panics and leaves the state as written so far.
Panic(c) == [c EXCEPT !.panicked = TRUE]

\* ------------------------------------------------------- linkedlist.List

\* List.init: an empty ring through the sentinel.
ListInit ==
    [next |-> [e \in Ptrs |-> IF e = Root THEN Root ELSE Nil],
     prev |-> [e \in Ptrs |-> IF e = Root THEN Root ELSE Nil],
     len |-> 0]

\* List.link
linkNodes(c, firstNode, secondNode) ==
    IF firstNode = Nil THEN Panic(c)
    ELSE LET c1 == [c EXCEPT !.next[firstNode] = secondNode]
         IN IF secondNode = Nil THEN Panic(c1)
            ELSE [c1 EXCEPT !.prev[secondNode] = firstNode]

\* List.Add
Add(c, elementToAdd) ==
    LET last == c.prev[Root]
        c1 == [c EXCEPT !.prev[elementToAdd] = last, !.next[elementToAdd] = Root]
    IN IF last = Nil THEN Panic(c1)
       ELSE LET c2 == [c1 EXCEPT !.next[last] = elementToAdd]
                c3 == [c2 EXCEPT !.prev[Root] = elementToAdd]
            IN [c3 EXCEPT !.len = c.len + 1]

\* List.Remove
Remove(c, e) ==
    IF c.len = 0 THEN c
    ELSE LET c1 == linkNodes(c, c.prev[e], c.next[e])
         IN IF c1.panicked THEN c1 ELSE [c1 EXCEPT !.len = c.len - 1]

\* List.Len
ListLen(c) == c.len

\* List.PopBack: the returned pointer.
PopBackResult(c) == IF c.len = 0 THEN Nil ELSE c.prev[Root]

\* List.PopBack: the state it leaves.
PopBack(c) ==
    IF c.len = 0 THEN c
    ELSE LET last == c.prev[Root]
         IN IF last = Nil \/ c.prev[last] = Nil THEN Panic(c)
            ELSE LET c1 == [c EXCEPT !.next[c.prev[last]] = Root]
                     c2 == [c1 EXCEPT !.prev[Root] = c1.prev[last]]
                     c3 == [c2 EXCEPT !.next[last] = Nil]
                     c4 == [c3 EXCEPT !.prev[last] = Nil]
                 IN [c4 EXCEPT !.len = c.len - 1]

\* List.Front
Front(c) == c.next[Root]

\* Element.GetNext
GetNext(c, e) == c.next[e]

\* List.AddBefore
AddBefore(c, elementToAdd, elementOld) ==
    IF elementOld = Root THEN c
    ELSE LET c1 == [c EXCEPT !.next[elementToAdd] = elementOld]
         IN IF elementOld = Nil THEN Panic(c1)
            ELSE LET c2 == [c1 EXCEPT !.prev[elementToAdd] = c1.prev[elementOld]]
                 IN IF c2.prev[elementOld] = Nil THEN Panic(c2)
                    ELSE LET c3 == [c2 EXCEPT !.next[c2.prev[elementOld]] = elementToAdd]
                             c4 == [c3 EXCEPT !.prev[elementOld] = elementToAdd]
                         IN [c4 EXCEPT !.len = c.len + 1]

\* List.Back
Back(c) == IF c.len = 0 THEN Nil ELSE c.prev[Root]

\* Mutant of ReplaceDeletedElement: the successor's prev is left as Remove
\* set it.
ReplaceDeletedElement_oneWay(c, elementToAdd, deletedElement) ==
    IF c.len = 0 THEN c
    ELSE LET c1 == [c EXCEPT !.next[elementToAdd] = c.next[deletedElement]]
             c2 == [c1 EXCEPT !.prev[elementToAdd] = c1.prev[deletedElement]]
         IN IF c2.prev[deletedElement] = Nil THEN Panic(c2)
            ELSE LET c3 == [c2 EXCEPT !.next[c2.prev[deletedElement]] = elementToAdd]
                 IN [c3 EXCEPT !.len = c.len + 1]

\* List.ReplaceDeletedElement
ReplaceDeletedElement(c, elementToAdd, deletedElement) ==
    IF c.len = 0 THEN c
    ELSE LET c1 == [c EXCEPT !.next[elementToAdd] = c.next[deletedElement]]
             c2 == [c1 EXCEPT !.prev[elementToAdd] = c1.prev[deletedElement]]
         IN IF c2.prev[deletedElement] = Nil THEN Panic(c2)
            ELSE LET c3 == [c2 EXCEPT !.next[c2.prev[deletedElement]] = elementToAdd]
                 IN IF c3.next[deletedElement] = Nil THEN Panic(c3)
                    ELSE LET c4 == [c3 EXCEPT !.prev[c3.next[deletedElement]] = elementToAdd]
                         IN [c4 EXCEPT !.len = c.len + 1]

\* List.Iterator: the values from Front() to the sentinel.  A walk that does
\* not come back to the sentinel within the number of addresses is cut there.
RECURSIVE IterFrom(_, _, _)
IterFrom(c, e, fuel) ==
    IF e = Root \/ e = Nil \/ fuel = 0 THEN <<>>
    ELSE <<c.Value[e]>> \o IterFrom(c, c.next[e], fuel - 1)

Iterator(c) == IterFrom(c, Front(c), Cardinality(Elems) + 1)

\* The elements linked in the list: those a walk along next from the sentinel
\* meets before it comes back to the sentinel.
RECURSIVE LinkedFrom(_, _, _)
LinkedFrom(c, e, fuel) ==
    IF e = Root \/ e = Nil \/ fuel = 0 THEN {}
    ELSE {e} \cup LinkedFrom(c, c.next[e], fuel - 1)

Linked(c) == LinkedFrom(c, c.next[Root], Cardinality(Elems) + 1)

\* ----------------------------------------------------------- lfu.CacheImpl

\* A call site of the cache into the list: c is the state at the call, ok says
\* that the arguments meet what the list operation expects.  The state keeps
\* a mark when they do not; the mark has no effect on the call.
CallWith(c, ok) == IF ok THEN c ELSE [c EXCEPT !.misuse = TRUE]

\* Addresses the program can still reach: from the two maps and the sentinel,
\* following next and prev.  Everything else is garbage.
RECURSIVE ReachFrom(_, _, _)
ReachFrom(c, S, fuel) ==
    LET T == S \cup (({c.next[e] : e \in S} \cup {c.prev[e] : e \in S}) \ {Nil})
    IN IF T = S \/ fuel = 0 THEN S ELSE ReachFrom(c, T, fuel - 1)

Reachable(c) ==
    ReachFrom(c,
              {Root} \cup (({c.keyToElement[k] : k \in Keys}
                            \cup {c.frequencyToRecentElement[f] : f \in Freqs}) \ {Nil}),
              Cardinality(Ptrs))

\* Garbage collection: an unreachable element and its node no longer exist.
\* Only an eviction leaves an element unreachable.
Collect(c) ==
    LET R == Reachable(c)
    IN [c EXCEPT !.next = [e \in Ptrs |-> IF e \in R THEN c.next[e] ELSE Nil],
                 !.prev = [e \in Ptrs |-> IF e \in R THEN c.prev[e] ELSE Nil],
                 !.Value = [e \in Ptrs |-> IF e \in R THEN c.Value[e] ELSE NilNode]]

\* linkedlist.NewElement: the address of the new Element.  Any address not in
\* use will do; the one numbered like the key is taken when it is free.
NewElementAddr(c, key) ==
    LET R == Reachable(c)
    IN IF key \notin R THEN key
       ELSE CHOOSE e \in Elems \ R : \A d \in Elems \ R : e <= d

\* linkedlist.NewElement
NewElement(c, e, n) ==
    [c EXCEPT !.Value[e] = n, !.next[e] = Nil, !.prev[e] = Nil]

\* CacheImpl.Size
Size(c) == ListLen(c)

\* CacheImpl.Capacity
Capacity(c) == c.capacity

\* Mutant of removeFreqLevel: the level is always dropped, never handed to the
\* next element of the same frequency.
removeFreqLevel_alwaysDelete(c, link) ==
    IF link = Nil \/ GetNext(c, link) = Nil THEN c
    ELSE LET n == c.Value[link]
         IN IF c.frequencyToRecentElement[n.freq] = link
            THEN [c EXCEPT !.frequencyToRecentElement[n.freq] = Nil]
            ELSE c

\* CacheImpl.removeFreqLevel
removeFreqLevel(c, link) ==
    IF link = Nil \/ GetNext(c, link) = Nil THEN c
    ELSE LET n == c.Value[link]
             previousEl == c.Value[GetNext(c, link)]
         IN IF c.frequencyToRecentElement[n.freq] = link
            THEN IF previousEl # NilNode /\ previousEl.freq = n.freq
                 THEN [c EXCEPT !.frequencyToRecentElement[n.freq] = GetNext(c, link)]
                 ELSE [c EXCEPT !.frequencyToRecentElement[n.freq] = Nil]
            ELSE c

\* CacheImpl.removeFromList
removeFromList(c, link) ==
    LET c1 == Remove(CallWith(c, link \in Linked(c)), link)
    IN IF c1.panicked THEN c1 ELSE removeFreqLevel(c1, link)

\* Mutant of addToNotEmptyList: an element joining an existing frequency level
\* is appended at the back of the list instead of put before the level's head.
addToNotEmptyList_appendToRun(c, link) ==
    LET n == c.Value[link]
        lastFreqRoot == c.frequencyToRecentElement[n.freq]
        freqExists == lastFreqRoot # Nil
    IN IF freqExists
       THEN Add(c, link)
       ELSE IF c.Value[Back(c)] = NilNode THEN Panic(c)
       ELSE IF n.freq < c.Value[Back(c)].freq
       THEN Add(c, link)
       ELSE IF n.freq # 1
       THEN LET lastPastFreqRoot == c.frequencyToRecentElement[n.freq - 1]
                pastFreqExists == lastPastFreqRoot # Nil
            IN IF pastFreqExists
               THEN AddBefore(c, link, lastPastFreqRoot)
               ELSE ReplaceDeletedElement(c, link, link)
       ELSE c

\* Mutant of addToNotEmptyList: an element whose old level is gone is appended
\* at the back of the list instead of put back where it was.
addToNotEmptyList_appendNoReplace(c, link) ==
    LET n == c.Value[link]
        lastFreqRoot == c.frequencyToRecentElement[n.freq]
        freqExists == lastFreqRoot # Nil
    IN IF freqExists
       THEN AddBefore(c, link, lastFreqRoot)
       ELSE IF c.Value[Back(c)] = NilNode THEN Panic(c)
       ELSE IF n.freq < c.Value[Back(c)].freq
       THEN Add(c, link)
       ELSE IF n.freq # 1
       THEN LET lastPastFreqRoot == c.frequencyToRecentElement[n.freq - 1]
                pastFreqExists == lastPastFreqRoot # Nil
            IN IF pastFreqExists
               THEN AddBefore(c, link, lastPastFreqRoot)
               ELSE Add(c, link)
       ELSE c

\* CacheImpl.addToNotEmptyList
addToNotEmptyList(c, link) ==
    LET n == c.Value[link]
        lastFreqRoot == c.frequencyToRecentElement[n.freq]
        freqExists == lastFreqRoot # Nil
        free == link \notin Linked(c)
        cb == CallWith(c, ListLen(c) > 0)
    IN IF freqExists
       THEN AddBefore(CallWith(c, free /\ lastFreqRoot \in Linked(c)),
                      link, lastFreqRoot)
       ELSE IF cb.Value[Back(cb)] = NilNode THEN Panic(cb)
       ELSE IF n.freq < cb.Value[Back(cb)].freq
       THEN Add(CallWith(cb, free), link)
       ELSE IF n.freq # 1
       THEN LET lastPastFreqRoot == cb.frequencyToRecentElement[n.freq - 1]
                pastFreqExists == lastPastFreqRoot # Nil
            IN IF pastFreqExists
               THEN AddBefore(CallWith(cb, free /\ lastPastFreqRoot \in Linked(cb)),
                              link, lastPastFreqRoot)
               ELSE ReplaceDeletedElement(CallWith(cb, free), link, link)
       ELSE cb

\* CacheImpl.addToList
addToList(c, link) ==
    LET c1 == IF ListLen(c) = 0 THEN Add(CallWith(c, link \notin Linked(c)), link)
              ELSE addToNotEmptyList(c, link)
        n == c.Value[link]
    IN IF c1.panicked THEN c1
       ELSE [c1 EXCEPT !.frequencyToRecentElement[n.freq] = link,
                       !.keyToElement[n.key] = link]

\* Mutant of extractLatest: the frequency index keeps its entry for the
\* element that left.
extractLatest_keepsFreqLevel(c) ==
    LET del == PopBackResult(c)
        c1 == PopBack(c)
    IN IF c1.panicked THEN c1
       ELSE IF del = Nil \/ c1.Value[del] = NilNode THEN Panic(c1)
       ELSE LET n == c1.Value[del]
            IN [c1 EXCEPT !.keyToElement[n.key] = Nil]

\* Mutant of extractLatest: the key index keeps its entry for the element
\* that left.
extractLatest_keepsKey(c) ==
    LET del == PopBackResult(c)
        c1 == PopBack(c)
    IN IF c1.panicked THEN c1
       ELSE IF del = Nil \/ c1.Value[del] = NilNode THEN Panic(c1)
       ELSE LET n == c1.Value[del]
            IN IF c1.frequencyToRecentElement[n.freq] = del
               THEN [c1 EXCEPT !.frequencyToRecentElement[n.freq] = Nil]
               ELSE c1

\* CacheImpl.extractLatest
extractLatest(c) ==
    LET del == PopBackResult(c)
        c1 == PopBack(CallWith(c, ListLen(c) > 0))
    IN IF c1.panicked THEN c1
       ELSE IF del = Nil \/ c1.Value[del] = NilNode THEN Panic(c1)
       ELSE LET n == c1.Value[del]
                c2 == IF c1.frequencyToRecentElement[n.freq] = del
                      THEN [c1 EXCEPT !.frequencyToRecentElement[n.freq] = Nil]
                      ELSE c1
            IN [c2 EXCEPT !.keyToElement[n.key] = Nil]

\* Mutant of GetPresent: the frequency is not incremented.
GetPresent_noIncrement(c, link) ==
    LET c1 == removeFromList(c, link)
    IN IF c1.panicked THEN c1
       ELSE addToList(removeFreqLevel(c1, link), link)

\* Mutant of GetPresent: the element is taken out and never put back.
GetPresent_dropsKey(c, link) ==
    LET c1 == removeFromList(c, link)
    IN IF c1.panicked THEN c1
       ELSE [c1 EXCEPT !.keyToElement[c1.Value[link].key] = Nil]

\* CacheImpl.Get, key present.
GetPresent(c, link) ==
    LET c1 == removeFromList(c, link)
    IN IF c1.panicked THEN c1
       ELSE LET c2 == removeFreqLevel(c1, link)
                c3 == [c2 EXCEPT !.Value[link].freq = @ + 1]
            IN addToList(c3, link)

\* Mutant of Get: a miss leaves an entry for the key in the key index.
Get_missRegistersKey(c, key) ==
    LET link == c.keyToElement[key]
    IN IF link # Nil THEN GetPresent(c, link)
       ELSE LET e == NewElementAddr(c, key)
                c1 == NewElement(c, e, [key |-> key, value |-> defaultValue, freq |-> 1])
            IN [c1 EXCEPT !.keyToElement[key] = e]

\* CacheImpl.Get: the state it leaves.
Get(c, key) ==
    LET link == c.keyToElement[key]
    IN IF link # Nil THEN GetPresent(c, link) ELSE c

\* CacheImpl.Get: the value and the error it returns.
GetResult(c, key) ==
    LET link == c.keyToElement[key]
        c1 == Get(c, key)
    IN IF link # Nil
       THEN [value |-> c1.Value[link].value, err |-> NoErr]
       ELSE [value |-> defaultValue, err |-> ErrKeyNotFound]

\* Mutant of PutPresent: the frequency is not incremented.
PutPresent_noIncrement(c, link, value) ==
    LET c1 == removeFromList(c, link)
    IN IF c1.panicked THEN c1
       ELSE LET c2 == removeFreqLevel(c1, link)
                c3 == [c2 EXCEPT !.Value[link].value = value]
            IN addToList(c3, link)

\* Mutant of PutPresent: the value is not stored.
PutPresent_keepsValue(c, link, value) ==
    LET c1 == removeFromList(c, link)
    IN IF c1.panicked THEN c1
       ELSE LET c2 == removeFreqLevel(c1, link)
                c4 == [c2 EXCEPT !.Value[link].freq = @ + 1]
            IN addToList(c4, link)

\* CacheImpl.Put, key present.
PutPresent(c, link, value) ==
    LET c1 == removeFromList(c, link)
    IN IF c1.panicked THEN c1
       ELSE LET c2 == removeFreqLevel(c1, link)
                c3 == [c2 EXCEPT !.Value[link].value = value]
                c4 == [c3 EXCEPT !.Value[link].freq = @ + 1]
            IN addToList(c4, link)

\* Mutant of PutAbsent: a full cache evicts nothing.
PutAbsent_noEvict(c, key, value) ==
    LET n == [key |-> key, value |-> value, freq |-> 1]
        e == NewElementAddr(c, key)
        c2 == NewElement(c, e, n)
        c3 == [c2 EXCEPT !.keyToElement[key] = e]
    IN addToList(c3, c3.keyToElement[key])

\* Mutant of PutAbsent: a cache that holds anything evicts, full or not.
PutAbsent_alwaysEvicts(c, key, value) ==
    LET c1 == IF Size(c) = c.capacity \/ Size(c) > 0
              THEN Collect(extractLatest(c)) ELSE c
    IN IF c1.panicked THEN c1
       ELSE LET n == [key |-> key, value |-> value, freq |-> 1]
                e == NewElementAddr(c1, key)
                c2 == NewElement(c1, e, n)
                c3 == [c2 EXCEPT !.keyToElement[key] = e]
            IN addToList(c3, c3.keyToElement[key])

\* CacheImpl.Put, key absent.
PutAbsent(c, key, value) ==
    LET c1 == IF Size(c) = c.capacity THEN Collect(extractLatest(c)) ELSE c
    IN IF c1.panicked THEN c1
       ELSE LET n == [key |-> key, value |-> value, freq |-> 1]
                e == NewElementAddr(c1, key)
                c2 == NewElement(c1, e, n)
                c3 == [c2 EXCEPT !.keyToElement[key] = e]
            IN addToList(c3, c3.keyToElement[key])

\* Mutant of Put: a full cache evicts before the key is looked up.
Put_evictsFirst(c, key, value) ==
    LET c0 == IF Size(c) = c.capacity THEN Collect(extractLatest(c)) ELSE c
    IN IF c0.panicked THEN c0
       ELSE LET link == c0.keyToElement[key]
            IN IF link # Nil THEN PutPresent(c0, link, value)
               ELSE PutAbsent(c0, key, value)

\* CacheImpl.Put
Put(c, key, value) ==
    LET link == c.keyToElement[key]
    IN IF link # Nil THEN PutPresent(c, link, value)
       ELSE PutAbsent(c, key, value)

\* CacheImpl.GetKeyFrequency
GetKeyFrequency(c, key) ==
    LET link == c.keyToElement[key]
    IN IF link # Nil
       THEN [n |-> c.Value[link].freq, err |-> NoErr]
       ELSE [n |-> 0, err |-> ErrKeyNotFound]

\* CacheImpl.All: the pairs a full traversal yields.
All(c) ==
    LET it == Iterator(c)
    IN [i \in 1..Len(it) |-> <<it[i].key, it[i].value>>]

\* --------------------------------------------------------- state machine

\* The argument lists New is called with: none, or one capacity.
NewArgSet == {<<>>} \cup {<<n>> : n \in (-1)..MaxCap}

NoOp ==
    [op |-> "none", key |-> 0, arg |-> defaultValue, value |-> defaultValue,
     n |-> 0, err |-> NoErr, panicked |-> FALSE, preFreq |-> 0, preSize |-> 0,
     all |-> <<>>, misuse |-> FALSE]

\* Before New has run there is no cache; the fields hold placeholders.
Init ==
    /\ next = ListInit.next
    /\ prev = ListInit.prev
    /\ len = 0
    /\ Value = [e \in Ptrs |-> NilNode]
    /\ keyToElement = [k \in Keys |-> Nil]
    /\ frequencyToRecentElement = [f \in Freqs |-> Nil]
    /\ capacity = 0
    /\ phase = "start"
    /\ newArgs = <<>>
    /\ lastOp = NoOp
    /\ recency = <<>>
    /\ lastPut = [k \in Keys |-> defaultValue]

\* The state a call leaves becomes the program state.  The actions bind that
\* state with \E over a one-element set, so that it is computed once.
Commit(c) ==
    /\ next' = c.next
    /\ prev' = c.prev
    /\ len' = c.len
    /\ Value' = c.Value
    /\ keyToElement' = c.keyToElement
    /\ frequencyToRecentElement' = c.frequencyToRecentElement
    /\ capacity' = c.capacity

\* History of touches: key becomes the most recent, keys that left are dropped.
RecencyAfter(c, key) ==
    SelectSeq(<<key>> \o SelectSeq(recency, LAMBDA k : k # key),
              LAMBDA k : c.keyToElement[k] # Nil)

\* History of values: the value of the latest Put of each key in the cache.
LastPutAfter(c, key, value) ==
    [k \in Keys |-> IF c.keyToElement[k] = Nil THEN defaultValue
                    ELSE IF k = key THEN value ELSE lastPut[k]]

\* Mutant of New: a negative capacity is accepted.
New_acceptsNegative(c, args) ==
    LET cacheCapacity == IF Len(args) > 0 THEN args[1] ELSE DefaultCapacity
    IN [c EXCEPT !.next = ListInit.next,
                 !.prev = ListInit.prev,
                 !.len = ListInit.len,
                 !.keyToElement = [k \in Keys |-> Nil],
                 !.frequencyToRecentElement = [f \in Freqs |-> Nil],
                 !.capacity = cacheCapacity]

\* New: the cache it returns; panicked when it panics instead.
New(c, args) ==
    IF Len(args) > 0 /\ args[1] < 0 THEN Panic(c)
    ELSE LET cacheCapacity == IF Len(args) > 0 THEN args[1] ELSE DefaultCapacity
         IN [c EXCEPT !.next = ListInit.next,
                      !.prev = ListInit.prev,
                      !.len = ListInit.len,
                      !.keyToElement = [k \in Keys |-> Nil],
                      !.frequencyToRecentElement = [f \in Freqs |-> Nil],
                      !.capacity = cacheCapacity]

\* New
DoNew(args) ==
    /\ phase = "start"
    /\ newArgs' = args
    /\ \E c1 \in {New(Cache, args)} :
          /\ Commit(c1)
          /\ phase' = IF c1.panicked THEN "failed" ELSE "ready"
          /\ lastOp' = [NoOp EXCEPT !.op = "New", !.panicked = c1.panicked]
    /\ UNCHANGED <<recency, lastPut>>

\* The frequency of key as the public API reports it; 0 when absent.
FreqOf(c, key) == GetKeyFrequency(c, key).n

\* The sum of the frequencies of the keys in the cache.
RECURSIVE SumFreq(_, _)
SumFreq(c, S) ==
    IF S = {} THEN 0
    ELSE LET k == CHOOSE x \in S : TRUE
         IN FreqOf(c, k) + SumFreq(c, S \ {k})

\* Frequencies grow without limit in the program; the model takes a step that
\* raises their sum only while the sum is below MaxTotalFreq.  A Get miss and a
\* Put of a new key into a full cache do not raise the sum and are never held
\* back.
CanGet(key) ==
    \/ SumFreq(Cache, Keys) < MaxTotalFreq
    \/ FreqOf(Cache, key) = 0

CanPut(key) ==
    \/ SumFreq(Cache, Keys) < MaxTotalFreq
    \/ FreqOf(Cache, key) = 0 /\ Size(Cache) = Capacity(Cache)

\* Cache.Get
DoGet(key) ==
    /\ phase = "ready"
    /\ CanGet(key)
    /\ \E c1 \in {Get(Cache, key)}, r \in {GetResult(Cache, key)} :
          /\ Commit(c1)
          /\ lastOp' = [NoOp EXCEPT !.op = "Get", !.key = key, !.value = r.value,
                                    !.err = r.err, !.panicked = c1.panicked,
                                    !.misuse = c1.misuse,
                                    !.preFreq = FreqOf(Cache, key),
                                    !.preSize = Size(Cache)]
          /\ recency' = IF r.err = NoErr THEN RecencyAfter(c1, key) ELSE recency
    /\ UNCHANGED <<phase, newArgs, lastPut>>

\* Cache.Put
DoPut(key, value) ==
    /\ phase = "ready"
    /\ CanPut(key)
    /\ \E c1 \in {Put(Cache, key, value)} :
          /\ Commit(c1)
          /\ lastOp' = [NoOp EXCEPT !.op = "Put", !.key = key, !.arg = value,
                                    !.panicked = c1.panicked,
                                    !.misuse = c1.misuse,
                                    !.preFreq = FreqOf(Cache, key),
                                    !.preSize = Size(Cache)]
          /\ recency' = RecencyAfter(c1, key)
          /\ lastPut' = LastPutAfter(c1, key, value)
    /\ UNCHANGED <<phase, newArgs>>

\* Mutant of DoGetKeyFrequency: the call counts as a use, as Get does.
DoGetKeyFrequency_countsAsUse(key) ==
    /\ phase = "ready"
    /\ CanGet(key)
    /\ \E c1 \in {Get(Cache, key)}, r \in {GetKeyFrequency(Cache, key)} :
          /\ Commit(c1)
          /\ lastOp' = [NoOp EXCEPT !.op = "GetKeyFrequency", !.key = key,
                                    !.n = r.n, !.err = r.err]
    /\ UNCHANGED <<phase, newArgs, recency, lastPut>>

\* Cache.GetKeyFrequency
DoGetKeyFrequency(key) ==
    /\ phase = "ready"
    /\ LET r == GetKeyFrequency(Cache, key)
       IN lastOp' = [NoOp EXCEPT !.op = "GetKeyFrequency", !.key = key,
                                 !.n = r.n, !.err = r.err]
    /\ UNCHANGED <<next, prev, len, Value, keyToElement, frequencyToRecentElement,
                   capacity, phase, newArgs, recency, lastPut>>

\* Cache.Size
DoSize ==
    /\ phase = "ready"
    /\ lastOp' = [NoOp EXCEPT !.op = "Size", !.n = Size(Cache)]
    /\ UNCHANGED <<next, prev, len, Value, keyToElement, frequencyToRecentElement,
                   capacity, phase, newArgs, recency, lastPut>>

\* Cache.Capacity
DoCapacity ==
    /\ phase = "ready"
    /\ lastOp' = [NoOp EXCEPT !.op = "Capacity", !.n = Capacity(Cache)]
    /\ UNCHANGED <<next, prev, len, Value, keyToElement, frequencyToRecentElement,
                   capacity, phase, newArgs, recency, lastPut>>

\* Cache.All, traversed to the end
DoAll ==
    /\ phase = "ready"
    /\ lastOp' = [NoOp EXCEPT !.op = "All", !.all = All(Cache)]
    /\ UNCHANGED <<next, prev, len, Value, keyToElement, frequencyToRecentElement,
                   capacity, phase, newArgs, recency, lastPut>>

Next ==
    \/ \E args \in NewArgSet : DoNew(args)
    \/ \E key \in Keys : DoGet(key)
    \/ \E key \in Keys, value \in Vals : DoPut(key, value)
    \/ \E key \in Keys : DoGetKeyFrequency(key)
    \/ DoSize
    \/ DoCapacity
    \/ DoAll

Spec == Init /\ [][Next]_vars

\* ------------------------------------------------------------ observers

\* The keys in the cache: those GetKeyFrequency finds.
LiveIn(c) == {k \in Keys : GetKeyFrequency(c, k).err = NoErr}
Live == LiveIn(Cache)

\* The value stored for a key in the cache.
ValueOf(c, key) == c.Value[c.keyToElement[key]].value

\* The keys All() yields, front to back.
AllKeys == [i \in 1..Len(All(Cache)) |-> All(Cache)[i][1]]

\* Position of key k in a sequence of keys, 0 when it is not there.
RECURSIVE IndexOf(_, _)
IndexOf(s, k) ==
    IF s = <<>> THEN 0
    ELSE IF Head(s) = k THEN 1
    ELSE LET i == IndexOf(Tail(s), k) IN IF i = 0 THEN 0 ELSE i + 1

\* Key a was touched (inserting Put, Get hit, updating Put) after key b was.
TouchedAfter(a, b) == IndexOf(recency, a) < IndexOf(recency, b)

\* The step just taken is this call (lastOp' describes the step).
StepIs(op) == lastOp'.op = op
StepKey == lastOp'.key

TypeOK ==
    /\ phase \in {"start", "ready", "failed", "list"}
    /\ len \in 0..(NumKeys + 1)
    /\ \A e \in Ptrs : next[e] \in Ptrs \cup {Nil} /\ prev[e] \in Ptrs \cup {Nil}
    /\ \A k \in Keys : keyToElement[k] \in Elems \cup {Nil}
    /\ \A f \in Freqs : frequencyToRecentElement[f] \in Elems \cup {Nil}

\* ---------------------------------------------------------------- claims

\* C1: a Put of a key that is not in the cache, while Size() = Capacity() >= 1,
\* evicts exactly one key; that key has the minimum frequency over the keys in
\* the cache and, among the keys of that frequency, the oldest last touch.
C1_EvictsLfuThenLru ==
    [][(StepIs("Put") /\ StepKey \notin Live
        /\ Size(Cache) = Capacity(Cache) /\ Capacity(Cache) >= 1)
       => /\ Cardinality(Live \ Live') = 1
          /\ \A g \in Live \ Live' : \A j \in Live \ {g} :
                \/ FreqOf(Cache, j) > FreqOf(Cache, g)
                \/ FreqOf(Cache, j) = FreqOf(Cache, g) /\ TouchedAfter(j, g)]_vars

\* C1 witness: a full cache of capacity 2 has just admitted a new key, and the
\* key that stayed has frequency 1 like the one that left (a tie on frequency).
C1_Witness ==
    /\ phase = "ready" /\ capacity = 2
    /\ lastOp.op = "Put" /\ lastOp.preFreq = 0 /\ lastOp.preSize = 2
    /\ ~lastOp.panicked
    /\ \A k \in Live : FreqOf(Cache, k) = 1

\* C2: Size() <= Capacity() in every state of a constructed cache.
C2_SizeAtMostCapacity ==
    phase = "ready" => Size(Cache) <= Capacity(Cache)

\* C2 witness: a Put of a new key into a full cache has completed.
C2_Witness ==
    /\ phase = "ready" /\ capacity >= 1
    /\ lastOp.op = "Put" /\ lastOp.preFreq = 0 /\ lastOp.preSize = capacity
    /\ ~lastOp.panicked
    /\ Size(Cache) = Capacity(Cache)

\* C3: All() yields exactly the keys in the cache, each once, in non-increasing
\* frequency order and, within one frequency, most recently touched first.
C3_AllOrder ==
    phase = "ready" =>
        /\ Len(AllKeys) = Cardinality(Live)
        /\ {AllKeys[i] : i \in 1..Len(AllKeys)} = Live
        /\ \A i \in 1..(Len(AllKeys) - 1) :
            LET A == AllKeys[i]
                B == AllKeys[i + 1]
            IN \/ FreqOf(Cache, A) > FreqOf(Cache, B)
               \/ FreqOf(Cache, A) = FreqOf(Cache, B) /\ TouchedAfter(A, B)

\* C3 witness: three keys, the first alone on a higher frequency, the other two
\* tied, and the tie was reordered by a touch (the later key was touched last).
C3_Witness ==
    /\ phase = "ready" /\ Len(AllKeys) = 3
    /\ FreqOf(Cache, AllKeys[1]) > FreqOf(Cache, AllKeys[2])
    /\ FreqOf(Cache, AllKeys[2]) = FreqOf(Cache, AllKeys[3])
    /\ FreqOf(Cache, AllKeys[3]) >= 2
    /\ recency[1] = AllKeys[2]

\* C4: a key's frequency is 1 right after a Put that inserts it; a Get hit and
\* a Put on a key in the cache raise that key's frequency by exactly 1; no step
\* changes the frequency of any other key that stays in the cache.
C4_FrequencySteps ==
    [][phase = "ready" =>
        /\ (StepIs("Put") /\ StepKey \notin Live /\ ~lastOp'.panicked)
              => (StepKey \in Live' /\ FreqOf(Cache', StepKey) = 1)
        /\ ((StepIs("Put") \/ StepIs("Get")) /\ StepKey \in Live)
              => (StepKey \in Live'
                  /\ FreqOf(Cache', StepKey) = FreqOf(Cache, StepKey) + 1)
        /\ \A j \in Live \cap Live' :
              (~(StepIs("Put") \/ StepIs("Get")) \/ j # StepKey)
                 => FreqOf(Cache', j) = FreqOf(Cache, j)]_vars

\* C4 witness: an updating Put has raised a frequency from 2 to 3 while
\* another key sits in the cache.
C4_Witness ==
    /\ phase = "ready"
    /\ lastOp.op = "Put" /\ lastOp.preFreq = 2
    /\ FreqOf(Cache, lastOp.key) = 3
    /\ Cardinality(Live) >= 2

\* C5: with capacity 0 every Put completes without a panic, leaves the key
\* absent, and Size() is 0 after every operation.
C5_CapacityZeroPut ==
    (phase = "ready" /\ capacity = 0) =>
        /\ Size(Cache) = 0
        /\ lastOp.op = "Put" =>
              /\ ~lastOp.panicked
              /\ GetResult(Cache, lastOp.key).err = ErrKeyNotFound

\* C6: Get and GetKeyFrequency of a key that is not in the cache return
\* ErrKeyNotFound (GetKeyFrequency with 0) and change nothing: Size(), the key
\* set, every value, every frequency and the All() order.
C6_MissChangesNothing ==
    [][(phase = "ready" /\ (StepIs("Get") \/ StepIs("GetKeyFrequency"))
        /\ StepKey \notin Live)
       => /\ lastOp'.err = ErrKeyNotFound
          /\ StepIs("GetKeyFrequency") => lastOp'.n = 0
          /\ StepIs("Get") => lastOp'.value = defaultValue
          /\ ~lastOp'.panicked
          /\ Size(Cache') = Size(Cache)
          /\ Live' = Live
          /\ All(Cache') = All(Cache)
          /\ \A k \in Live : FreqOf(Cache', k) = FreqOf(Cache, k)]_vars

\* C6 witness: a Get has missed on a cache that holds two keys.
C6_Witness ==
    /\ phase = "ready"
    /\ lastOp.op = "Get" /\ lastOp.err = ErrKeyNotFound
    /\ Size(Cache) = 2

\* C7: with capacity >= 1, right after Put(k, v) a Get(k) returns v and no
\* error and leaves k's frequency at its pre-Put frequency + 2 (2 when k was
\* absent before the Put).
C7_PutThenGet ==
    (phase = "ready" /\ capacity >= 1 /\ lastOp.op = "Put" /\ CanGet(lastOp.key)) =>
        LET k == lastOp.key
            r == GetResult(Cache, k)
            c1 == Get(Cache, k)
        IN /\ ~lastOp.panicked /\ ~c1.panicked
           /\ r.value = lastOp.arg
           /\ r.err = NoErr
           /\ FreqOf(c1, k) = lastOp.preFreq + 2
           /\ FreqOf(c1, k) > lastOp.preFreq

\* C7 witness: Put has just updated a key of frequency 2 to a new value in a
\* full cache, and a Get of it is possible.
C7_Witness ==
    /\ phase = "ready" /\ capacity >= 1
    /\ lastOp.op = "Put" /\ lastOp.preFreq = 2 /\ lastOp.arg = "v2"
    /\ Size(Cache) = Capacity(Cache)
    /\ CanGet(lastOp.key)

\* C8: a Get hit returns the value of the latest Put of that key and no error,
\* and no stored value changes in the step.
C8_GetReturnsLatestPut ==
    [][(phase = "ready" /\ StepIs("Get") /\ StepKey \in Live)
       => /\ lastOp'.err = NoErr
          /\ lastOp'.value = lastPut[StepKey]
          /\ Live' = Live
          /\ \A j \in Live : ValueOf(Cache', j) = ValueOf(Cache, j)]_vars

\* C8 witness: a Get hit has returned "v2" for a key already touched before,
\* while another key holds "v1".
C8_Witness ==
    /\ phase = "ready"
    /\ lastOp.op = "Get" /\ lastOp.err = NoErr /\ lastOp.value = "v2"
    /\ lastOp.preFreq >= 2
    /\ \E j \in Live : j # lastOp.key /\ ValueOf(Cache, j) = "v1"

\* C9: Put(k, v) of a key in the cache sets k's value to v and evicts nothing,
\* also when the cache is full: Size() and the key set stay, every other key
\* keeps its value and its frequency.
C9_UpdateEvictsNothing ==
    [][(phase = "ready" /\ StepIs("Put") /\ StepKey \in Live)
       => /\ ~lastOp'.panicked
          /\ Live' = Live
          /\ Size(Cache') = Size(Cache)
          /\ ValueOf(Cache', StepKey) = lastOp'.arg
          /\ \A j \in Live \ {StepKey} :
                /\ ValueOf(Cache', j) = ValueOf(Cache, j)
                /\ FreqOf(Cache', j) = FreqOf(Cache, j)]_vars

\* C9 witness: an updating Put has run on a full cache of two keys and changed
\* the value to one the other key does not hold.
C9_Witness ==
    /\ phase = "ready" /\ capacity = 2
    /\ lastOp.op = "Put" /\ lastOp.preFreq >= 1 /\ lastOp.preSize = 2
    /\ ValueOf(Cache, lastOp.key) = "v2"
    /\ \E j \in Live : j # lastOp.key /\ ValueOf(Cache, j) = "v1"

\* C10: New with a negative argument panics and yields no cache; with no
\* argument the capacity is 5; with an argument c >= 0 it is c; and Capacity()
\* returns that value in every later state.
C10_CapacityFixedByNew ==
    /\ phase = "failed" <=> (lastOp.op = "New" /\ Len(newArgs) > 0 /\ newArgs[1] < 0)
    /\ phase = "failed" => lastOp.panicked
    /\ phase = "ready" =>
          /\ Len(newArgs) = 0 => Capacity(Cache) = 5
          /\ Len(newArgs) > 0 => (newArgs[1] >= 0 /\ Capacity(Cache) = newArgs[1])
          /\ lastOp.op = "Capacity" => lastOp.n = Capacity(Cache)

\* C10 witness: Capacity() has returned 5 on a cache built with no argument
\* that has since taken three keys.
C10_Witness ==
    /\ phase = "ready" /\ newArgs = <<>>
    /\ lastOp.op = "Capacity" /\ lastOp.n = 5
    /\ Size(Cache) = 3

\* C11: on an empty list (Len() = 0) Front, Back and PopBack each return nil,
\* never the sentinel, and PopBack changes nothing.  Front and Back have no
\* effect on the list at all.
C11_EmptyListReturnsNil ==
    (phase = "ready" /\ ListLen(Cache) = 0)
    => /\ Front(Cache) = Nil
       /\ Back(Cache) = Nil
       /\ PopBackResult(Cache) = Nil
       /\ PopBack(Cache) = Cache

\* ------------------------------------------- linkedlist.List on its own

\* The list as a caller other than the cache may drive it: any element, linked
\* or not, goes to Add, AddBefore and Remove.  Len() grows without limit when
\* an element is added again and again; the model adds up to MaxListLen.
MaxListLen == 3

\* The elements the caller holds.
NumListElems == 2
ListElems == 1..NumListElems

\* NewList(), and elements from NewElement that no list has seen.
InitList ==
    /\ next = ListInit.next
    /\ prev = ListInit.prev
    /\ len = ListInit.len
    /\ Value = [e \in Ptrs |-> NilNode]
    /\ keyToElement = [k \in Keys |-> Nil]
    /\ frequencyToRecentElement = [f \in Freqs |-> Nil]
    /\ capacity = 0
    /\ phase = "list"
    /\ newArgs = <<>>
    /\ lastOp = NoOp
    /\ recency = <<>>
    /\ lastPut = [k \in Keys |-> defaultValue]

\* A list call leaves the list as c; a call that panicked ends the run.
ListStep(c, op, e, anchor) ==
    /\ phase = "list"
    /\ ~lastOp.panicked
    /\ next' = c.next
    /\ prev' = c.prev
    /\ len' = c.len
    /\ lastOp' = [NoOp EXCEPT !.op = op, !.key = e, !.n = anchor,
                              !.panicked = c.panicked]
    /\ UNCHANGED <<Value, keyToElement, frequencyToRecentElement, capacity,
                   phase, newArgs, recency, lastPut>>

\* List.Add
ListAdd(e) ==
    /\ len < MaxListLen
    /\ \E c1 \in {Add(Cache, e)} : ListStep(c1, "List.Add", e, 0)

\* List.AddBefore
ListAddBefore(e, old) ==
    /\ len < MaxListLen
    /\ \E c1 \in {AddBefore(Cache, e, old)} : ListStep(c1, "List.AddBefore", e, old)

\* List.Remove
ListRemove(e) ==
    \E c1 \in {Remove(Cache, e)} : ListStep(c1, "List.Remove", e, 0)

\* List.PopBack
ListPopBack ==
    \E c1 \in {PopBack(Cache)} : ListStep(c1, "List.PopBack", PopBackResult(Cache), 0)

NextList ==
    \/ \E e \in ListElems : ListAdd(e)
    \/ \E e \in ListElems, old \in ListElems \cup {Root} : ListAddBefore(e, old)
    \/ \E e \in ListElems : ListRemove(e)
    \/ ListPopBack

SpecList == InitList /\ [][NextList]_vars

\* C12: Add and AddBefore of an element that is linked in the list, and Remove
\* of an element that is not linked in it (never added, or already removed),
\* leave the links and Len() as they were.
C12_WrongLinkStateIsNoOp ==
    [][(\/ StepIs("List.Add") /\ StepKey \in Linked(Cache)
        \/ StepIs("List.AddBefore") /\ StepKey \in Linked(Cache)
        \/ StepIs("List.Remove") /\ StepKey \notin Linked(Cache))
       => (next' = next /\ prev' = prev /\ len' = len)]_vars

\* ------------------------------------------------ structure of the cache

\* The elements a walk along next meets from Front() up to the sentinel, in
\* the order of the walk.
RECURSIVE RingFrom(_, _, _)
RingFrom(c, e, fuel) ==
    IF e = Root \/ e = Nil \/ fuel = 0 THEN <<>>
    ELSE <<e>> \o RingFrom(c, c.next[e], fuel - 1)

Ring(c) == RingFrom(c, c.next[Root], Cardinality(Elems) + 1)

\* The positions on the ring whose node has frequency f.
RingAt(c, f) == {i \in 1..Len(Ring(c)) : c.Value[Ring(c)[i]].freq = f}

\* C13: the frequency index has an entry for f exactly when some linked node
\* has frequency f, and the entry is the front-most linked node of frequency f.
C13_FrequencyIndex ==
    phase = "ready" =>
       \A f \in Freqs :
          /\ frequencyToRecentElement[f] # Nil <=> RingAt(Cache, f) # {}
          /\ \A i \in RingAt(Cache, f) :
                (\A j \in RingAt(Cache, f) : i <= j)
                => frequencyToRecentElement[f] = Ring(Cache)[i]

\* C13 witness: three linked nodes, two of them of frequency 2 with the index
\* entry on the one nearer the front, after a Get moved a key between levels.
C13_Witness ==
    /\ phase = "ready" /\ lastOp.op = "Get" /\ lastOp.err = NoErr
    /\ Len(Ring(Cache)) = 3
    /\ Cardinality(RingAt(Cache, 2)) = 2
    /\ Cardinality(RingAt(Cache, 1)) = 1
    /\ frequencyToRecentElement[2] = keyToElement[lastOp.key]

\* The keys the key index has an entry for.
IndexedKeys(c) == {k \in Keys : c.keyToElement[k] # Nil}

\* C14: the key index covers exactly the linked nodes: its keys are the keys
\* held by linked nodes, each key maps to the linked node that holds it, no
\* two linked nodes hold the same key, and Size() is the number of keys in
\* the index.
C14_KeyIndex ==
    phase = "ready" =>
       LET ring == Ring(Cache)
       IN /\ IndexedKeys(Cache) = {Value[ring[i]].key : i \in 1..Len(ring)}
          /\ \A k \in IndexedKeys(Cache) :
                /\ \E i \in 1..Len(ring) : ring[i] = keyToElement[k]
                /\ Value[keyToElement[k]].key = k
          /\ \A i, j \in 1..Len(ring) :
                Value[ring[i]].key = Value[ring[j]].key => i = j
          /\ Size(Cache) = Cardinality(IndexedKeys(Cache))

\* C14 witness: a full cache of two keys has evicted one for a new key while
\* the key that stayed had been touched again.
C14_Witness ==
    /\ phase = "ready" /\ capacity = 2
    /\ lastOp.op = "Put" /\ lastOp.preFreq = 0 /\ lastOp.preSize = 2
    /\ Cardinality(IndexedKeys(Cache)) = 2
    /\ \E k \in IndexedKeys(Cache) : FreqOf(Cache, k) >= 2

\* C15: after every completed Put and Get the list is a doubly-linked ring
\* through the sentinel: the walk along next from the sentinel meets Len()
\* distinct data nodes and comes back to the sentinel, and x.next.prev = x for
\* the sentinel and every node on the walk.
C15_ValidRing ==
    (phase = "ready" /\ lastOp.op \in {"Put", "Get"} /\ ~lastOp.panicked) =>
       LET ring == Ring(Cache)
           last == IF ring = <<>> THEN Root ELSE ring[Len(ring)]
       IN /\ Len(ring) = ListLen(Cache)
          /\ \A i, j \in 1..Len(ring) : ring[i] = ring[j] => i = j
          /\ next[last] = Root
          /\ \A x \in {Root} \cup {ring[i] : i \in 1..Len(ring)} :
                next[x] # Nil /\ prev[next[x]] = x

\* C15 witness: a Get has raised the middle one of three keys from frequency 2
\* to 3, between a key of frequency 4 and a key of frequency 1; the node was
\* put back through its own next and prev.
C15_Witness ==
    /\ phase = "ready" /\ lastOp.op = "Get" /\ lastOp.err = NoErr
    /\ lastOp.preFreq = 2
    /\ Len(Ring(Cache)) = 3
    /\ Value[Ring(Cache)[1]].freq = 4
    /\ Ring(Cache)[2] = keyToElement[lastOp.key]
    /\ Value[Ring(Cache)[3]].freq = 1

\* ------------------------------------------------------- frame conditions

\* The keys All() yields on cache c, front to back.
AllKeysIn(c) == [i \in 1..Len(All(c)) |-> All(c)[i][1]]

\* The step just taken is a Get hit or an updating Put of a key in the cache.
StepIsTouch ==
    \/ StepIs("Get") /\ lastOp'.err = NoErr
    \/ StepIs("Put") /\ StepKey \in Live

\* C16: a Get hit or an updating Put of a key k whose frequency f no other key
\* in the cache has, while no key in the cache has frequency f + 1, leaves the
\* order of the keys All() yields as it was, and k has frequency f + 1.
C16_SoloTouchKeepsOrder ==
    [][(/\ StepIsTouch
        /\ \A j \in Live \ {StepKey} :
              /\ FreqOf(Cache, j) # FreqOf(Cache, StepKey)
              /\ FreqOf(Cache, j) # FreqOf(Cache, StepKey) + 1)
       => /\ AllKeysIn(Cache') = AllKeysIn(Cache)
          /\ FreqOf(Cache', StepKey) = FreqOf(Cache, StepKey) + 1]_vars

\* C16 witness: an updating Put has raised the middle one of three keys from
\* frequency 2 to 3, between a key of frequency 4 and a key of frequency 1.
C16_Witness ==
    /\ phase = "ready" /\ lastOp.op = "Put" /\ lastOp.preFreq = 2
    /\ Len(AllKeysIn(Cache)) = 3
    /\ FreqOf(Cache, AllKeysIn(Cache)[1]) = 4
    /\ AllKeysIn(Cache)[2] = lastOp.key
    /\ FreqOf(Cache, AllKeysIn(Cache)[2]) = 3
    /\ FreqOf(Cache, AllKeysIn(Cache)[3]) = 1

\* C17: in every Put and Get on a cache built by New, each call into the list
\* meets what the list operation expects: Remove gets a linked node; Add,
\* AddBefore and ReplaceDeletedElement get a node to add that is not linked;
\* AddBefore gets a linked node as its anchor; and the result of PopBack and
\* Back is dereferenced only when the list is not empty.
C17_CallsMeetPreconditions ==
    phase = "ready" => ~lastOp.misuse

\* The keys of S in the order All() yields them on cache c.
OrderOf(c, S) == SelectSeq(AllKeysIn(c), LAMBDA k : k \in S)

\* Every key of S has in Cache' the value and the frequency it has in Cache,
\* and the keys of S are in the same order relative to each other.
Untouched(S) ==
    /\ \A j \in S : /\ ValueOf(Cache', j) = ValueOf(Cache, j)
                    /\ FreqOf(Cache', j) = FreqOf(Cache, j)
    /\ OrderOf(Cache', S) = OrderOf(Cache, S)

C19_GetHitFrame ==
    [][(StepIs("Get") /\ lastOp'.err = NoErr)
       => /\ Size(Cache') = Size(Cache)
          /\ Live' = Live
          /\ \A j \in Live : ValueOf(Cache', j) = ValueOf(Cache, j)
          /\ Untouched(Live \ {StepKey})]_vars

\* C19 witness: a Get hit has moved a key of frequency 1 to the front of a
\* cache of three keys, past two keys that stay at frequency 1.
C19_Witness ==
    /\ phase = "ready" /\ lastOp.op = "Get" /\ lastOp.err = NoErr
    /\ lastOp.preFreq = 1 /\ Size(Cache) = 3
    /\ AllKeysIn(Cache)[1] = lastOp.key
    /\ FreqOf(Cache, AllKeysIn(Cache)[2]) = 1
    /\ FreqOf(Cache, AllKeysIn(Cache)[3]) = 1
    /\ ValueOf(Cache, AllKeysIn(Cache)[2]) # ValueOf(Cache, AllKeysIn(Cache)[3])

\* The step just taken is GetKeyFrequency on a key in the cache, Size,
\* Capacity, or All traversed to the end.
StepIsRead ==
    \/ StepIs("GetKeyFrequency") /\ StepKey \in Live
    \/ StepIs("Size")
    \/ StepIs("Capacity")
    \/ StepIs("All")

\* C20: GetKeyFrequency on a key in the cache, Size, Capacity and a full All()
\* traversal change no frequency, value, key set or order, so a later
\* traversal yields what an earlier one did when only such calls lie between
\* them.  A traversal ends at the sentinel after Size() pairs, one for each key
\* in the cache, with the key's current value.
C20_ReadOnly ==
    [][StepIsRead
       => /\ Cache' = Cache
          /\ Live' = Live
          /\ Untouched(Live)
          /\ All(Cache') = All(Cache)
          /\ StepIs("GetKeyFrequency")
             => (lastOp'.err = NoErr /\ lastOp'.n = FreqOf(Cache, StepKey))
          /\ StepIs("All")
             => LET a == lastOp'.all
                    ring == Ring(Cache)
                IN /\ a = All(Cache)
                   /\ Len(a) = Size(Cache)
                   /\ next[IF ring = <<>> THEN Root ELSE ring[Len(ring)]] = Root
                   /\ \A k \in Live :
                         /\ Cardinality({i \in 1..Len(a) : a[i][1] = k}) = 1
                         /\ \E i \in 1..Len(a) : a[i] = <<k, ValueOf(Cache, k)>>]_vars

\* C20 witness: All() has been traversed on a cache of three keys that hold
\* both values and frequencies 3, 2 and 1.
C20_Witness ==
    /\ phase = "ready" /\ lastOp.op = "All"
    /\ Len(lastOp.all) = 3
    /\ lastOp.all[1][2] # lastOp.all[2][2]
    /\ FreqOf(Cache, lastOp.all[1][1]) = 3
    /\ FreqOf(Cache, lastOp.all[2][1]) = 2
    /\ FreqOf(Cache, lastOp.all[3][1]) = 1

====
